---- MODULE Spec2Model ----
(***************************************************************************)
(* Model of ecommerce_dashboard.py: a Streamlit script that is re-run from *)
(* top to bottom on every widget interaction.  One run is: validation of   *)
(* the sidebar selection, the filter, the KPIs and their deltas, the time  *)
(* series, the optional grouped summaries, the CSV export and the feedback *)
(* form.  Amounts are integers (exact sums); a floating-point result is a  *)
(* tagged value so that inf / nan / a raised exception stay distinct.      *)
(***************************************************************************)
EXTENDS Integers, Sequences, FiniteSets, TLC

(* ------------------------------- bounds -------------------------------- *)
\* Number of rows of the largest generated dataset.
MaxRows == 13
\* Longest feedback text typed into the text area.
MaxTextLen == 2
\* Most feedback submissions in one session.
MaxSubmissions == 2
\* Largest baseline / current metric drawn for the delta computation.
MaxMetric == 2

(* --------------------------- program constants ------------------------- *)
\* .head(10) of the top-products summary.
TopN == 10

(* ------------------------------ calendar ------------------------------- *)
\* A date is the integer yyyymmdd, so that <= on dates is <= on integers.
YearOf(d) == d \div 10000
MonthOf(d) == (d \div 100) % 100
DayOf(d) == d % 100
MkDate(y, m, d) == y * 10000 + m * 100 + d

IsLeap(y) == (y % 4 = 0 /\ y % 100 # 0) \/ y % 400 = 0

DaysInMonth(y, m) ==
    IF m = 2 THEN (IF IsLeap(y) THEN 29 ELSE 28)
    ELSE IF m \in {4, 6, 9, 11} THEN 30 ELSE 31

NextDay(d) ==
    IF DayOf(d) < DaysInMonth(YearOf(d), MonthOf(d)) THEN d + 1
    ELSE IF MonthOf(d) < 12 THEN MkDate(YearOf(d), MonthOf(d) + 1, 1)
    ELSE MkDate(YearOf(d) + 1, 1, 1)

RECURSIVE AddDays(_, _)
AddDays(d, k) == IF k = 0 THEN d ELSE AddDays(NextDay(d), k - 1)

\* Timestamp subtraction in whole days (to >= from in every dataset).
RECURSIVE DaysBetween(_, _)
DaysBetween(from, to) ==
    IF from >= to THEN 0 ELSE 1 + DaysBetween(NextDay(from), to)

MonthStart(d) == MkDate(YearOf(d), MonthOf(d), 1)

MonthEnd(d) == MkDate(YearOf(d), MonthOf(d), DaysInMonth(YearOf(d), MonthOf(d)))

(* ------------------------------ strings -------------------------------- *)
Segments == <<"Consumer", "Corporate">>
Regions == <<"East", "West">>
Categories == <<"Furniture", "Office Supplies", "Technology">>
Products == <<"P01", "P02", "P03", "P04", "P05", "P06",
              "P07", "P08", "P09", "P10", "P11", "P12">>

\* Every string of the model in lexicographic order (the order groupby sorts keys in).
Collation == Segments \o Regions \o Categories \o Products

SeqRange(s) == {s[i] : i \in 1..Len(s)}

(* ------------------------------ dataset -------------------------------- *)
OrderDates == <<20240130, 20240210, 20240301>>

\* Row i of the generated dataset, as read from the CSV (no Delivery Time yet).
\* Two consecutive rows are the lines of one order.
CsvRow(i) ==
    LET o == (i + 1) \div 2
        od == OrderDates[(o % 3) + 1]
    IN  [Order_ID |-> o,
         Order_Date |-> od,
         Ship_Date |-> AddDays(od, o % 4),
         Segment |-> Segments[(o % 2) + 1],
         Region |-> Regions[((o \div 2) % 2) + 1],
         Category |-> Categories[(i % 3) + 1],
         Product_Name |-> Products[((i - 1) % Len(Products)) + 1],
         Sales |-> ((i * 3) % 5) * 50,
         Profit |-> (((i * 2) % 7) - 2) * 10]

\* The two records of the monthly-resample scenario.
ScenarioCsv ==
    << [Order_ID |-> 1, Order_Date |-> 20240105, Ship_Date |-> 20240108,
        Segment |-> "Consumer", Region |-> "East", Category |-> "Furniture",
        Product_Name |-> "P01", Sales |-> 100, Profit |-> 20],
       [Order_ID |-> 2, Order_Date |-> 20240210, Ship_Date |-> 20240212,
        Segment |-> "Consumer", Region |-> "East", Category |-> "Technology",
        Product_Name |-> "P02", Sales |-> 200, Profit |-> -10] >>

\* Files of MaxRows, MaxRows - 6, ... rows, and the scenario.
CsvFiles ==
    {[i \in 1..n |-> CsvRow(i)] : n \in {m \in 1..MaxRows : (MaxRows - m) % 6 = 0}}
        \cup {ScenarioCsv}

\* load_data: adds the derived column Delivery Time = (Ship Date - Order Date).days
load_data(csv) ==
    [i \in 1..Len(csv) |->
        [Order_ID |-> csv[i].Order_ID,
         Order_Date |-> csv[i].Order_Date,
         Ship_Date |-> csv[i].Ship_Date,
         Segment |-> csv[i].Segment,
         Region |-> csv[i].Region,
         Category |-> csv[i].Category,
         Product_Name |-> csv[i].Product_Name,
         Sales |-> csv[i].Sales,
         Profit |-> csv[i].Profit,
         Delivery_Time |-> DaysBetween(csv[i].Order_Date, csv[i].Ship_Date)]]

(* ------------------------- floating-point values ----------------------- *)
\* A computed number: an exact ratio num/den, or what numpy / Python give instead.
\* kind: "num", "inf", "-inf", "nan", "raise" (ZeroDivisionError), "unset" (never assigned).
Num(n, d) == [kind |-> "num", num |-> n, den |-> d]
Special(k) == [kind |-> k, num |-> 0, den |-> 1]

\* ((cur - base) / base) * 100 on numpy.float64 operands (Series.sum() results):
\* a zero divisor gives inf, -inf or nan with a RuntimeWarning, never an exception.
Numpy64PctDelta(cur, base) ==
    IF base # 0 THEN Num((cur - base) * 100, base)
    ELSE IF cur - base > 0 THEN Special("inf")
    ELSE IF cur - base < 0 THEN Special("-inf")
    ELSE Special("nan")

\* The same expression on Python ints (Series.nunique() results): int / 0 raises.
PyIntPctDelta(cur, base) ==
    IF base # 0 THEN Num((cur - base) * 100, base) ELSE Special("raise")

\* a - b on float64 means; nan propagates.
FloatSub(a, b) ==
    IF a.kind = "num" /\ b.kind = "num"
    THEN Num(a.num * b.den - b.num * a.den, a.den * b.den)
    ELSE Special("nan")

(* ------------------------- column aggregations ------------------------- *)
Column(rows, col) == [i \in 1..Len(rows) |-> rows[i][col]]

RECURSIVE SumSeq(_)
SumSeq(s) == IF s = <<>> THEN 0 ELSE Head(s) + SumSeq(Tail(s))

\* Series.sum(): 0 for an empty series.
Sum(rows, col) == SumSeq(Column(rows, col))

\* Series.nunique(): a Python int.
Nunique(rows, col) == Cardinality(SeqRange(Column(rows, col)))

\* Mutant: 0 for an empty series.
MeanZeroWhenEmpty(rows, col) ==
    IF rows = <<>> THEN Num(0, 1) ELSE Num(Sum(rows, col), Len(rows))

\* Series.mean(): nan for an empty series.
Mean(rows, col) ==
    IF rows = <<>> THEN Special("nan") ELSE Num(Sum(rows, col), Len(rows))

(* ------------------------------ validation ----------------------------- *)
\* Mutant: "and" for "or".
ValidationStopsIfBothEmpty(segs, regs) == segs = {} /\ regs = {}

\* "if not selected_segments or not selected_regions: st.stop()"
ValidationStops(segs, regs) == segs = {} \/ regs = {}

(* -------------------------------- filter ------------------------------- *)
\* Mutant: the end of the date range is excluded.
KeepBeforeEnd(r, dr, segs, regs) ==
    /\ r.Order_Date >= dr[1]
    /\ r.Order_Date < dr[2]
    /\ r.Segment \in segs
    /\ r.Region \in regs

\* The boolean mask of the filter, for one row.
Keep(r, dr, segs, regs) ==
    /\ r.Order_Date >= dr[1]
    /\ r.Order_Date <= dr[2]
    /\ r.Segment \in segs
    /\ r.Region \in regs

\* df[mask]: a new frame with the kept rows in their original order.
FilterData(rows, dr, segs, regs) ==
    LET Test(r) == Keep(r, dr, segs, regs) IN SelectSeq(rows, Test)

(* --------------------------------- KPIs -------------------------------- *)
Metrics(all, flt) ==
    [overall_sales |-> Sum(all, "Sales"),
     overall_profit |-> Sum(all, "Profit"),
     overall_orders |-> Nunique(all, "Order_ID"),
     overall_delivery |-> Mean(all, "Delivery_Time"),
     total_sales |-> Sum(flt, "Sales"),
     total_profit |-> Sum(flt, "Profit"),
     total_orders |-> Nunique(flt, "Order_ID"),
     avg_delivery |-> Mean(flt, "Delivery_Time")]

NoMetrics ==
    [overall_sales |-> 0, overall_profit |-> 0, overall_orders |-> 0,
     overall_delivery |-> Special("unset"),
     total_sales |-> 0, total_profit |-> 0, total_orders |-> 0,
     avg_delivery |-> Special("unset")]

\* The four delta statements, in program order; a statement after one that raised
\* is never executed and leaves its name unset.
Deltas(k) ==
    LET od == PyIntPctDelta(k.total_orders, k.overall_orders)
    IN  [sales_delta |-> Numpy64PctDelta(k.total_sales, k.overall_sales),
         profit_delta |-> Numpy64PctDelta(k.total_profit, k.overall_profit),
         orders_delta |-> od,
         delivery_delta |-> IF od.kind = "raise" THEN Special("unset")
                            ELSE FloatSub(k.avg_delivery, k.overall_delivery)]

NoDeltas ==
    [sales_delta |-> Special("unset"), profit_delta |-> Special("unset"),
     orders_delta |-> Special("unset"), delivery_delta |-> Special("unset")]

(* ------------------------------ resampling ----------------------------- *)
MinOf(S) == CHOOSE x \in S : \A y \in S : x <= y
MaxOf(S) == CHOOSE x \in S : \A y \in S : x >= y

\* A bin is named by its first day.  The bin a timestamp falls in:
BinOf(gran, d) == IF gran = "Monthly" THEN MonthStart(d) ELSE d

\* The bin after bin b.
NextBin(gran, b) == IF gran = "Monthly" THEN NextDay(MonthEnd(b)) ELSE NextDay(b)

\* Mutant: a bin carries its first day.
BinLabelFirstDay(gran, b) == b

\* The timestamp a bin is labelled with in the result: rule "M" is the month-end
\* frequency, whose bins carry their last day; rule "D" labels a day by itself.
BinLabel(gran, b) == IF gran = "Monthly" THEN MonthEnd(b) ELSE b

RECURSIVE Bins(_, _, _)
Bins(gran, b, last) ==
    IF b > last THEN <<>> ELSE <<b>> \o Bins(gran, NextBin(gran, b), last)

\* Mutant: only the bins that hold a row.
ResampleOccupied(rows, gran) ==
    LET dates == SeqRange(Column(rows, "Order_Date"))
        InBin(b) == LET Test(r) == BinOf(gran, r.Order_Date) = b IN SelectSeq(rows, Test)
        Occupied(b) == InBin(b) # <<>>
        bins == IF rows = <<>> THEN <<>>
                ELSE SelectSeq(Bins(gran, BinOf(gran, MinOf(dates)),
                                    BinOf(gran, MaxOf(dates))), Occupied)
    IN  [j \in 1..Len(bins) |->
            [Order_Date |-> BinLabel(gran, bins[j]),
             Sales |-> Sum(InBin(bins[j]), "Sales"),
             Profit |-> Sum(InBin(bins[j]), "Profit")]]

\* set_index("Order Date").resample(rule)[["Sales", "Profit"]].sum().reset_index():
\* one row per bin from the bin of the earliest row to the bin of the latest one;
\* the sum of a bin without rows is 0.
Resample(rows, gran) ==
    IF rows = <<>> THEN <<>>
    ELSE LET dates == SeqRange(Column(rows, "Order_Date"))
             bins == Bins(gran, BinOf(gran, MinOf(dates)), BinOf(gran, MaxOf(dates)))
             InBin(b) == LET Test(r) == BinOf(gran, r.Order_Date) = b
                         IN  SelectSeq(rows, Test)
         IN  [j \in 1..Len(bins) |->
                 [Order_Date |-> BinLabel(gran, bins[j]),
                  Sales |-> Sum(InBin(bins[j]), "Sales"),
                  Profit |-> Sum(InBin(bins[j]), "Profit")]]

(* ---------------------------- grouped summaries ------------------------ *)
\* The distinct values of a column, in sorted order (groupby sorts its keys).
SortedKeys(rows, col) ==
    LET Present(k) == \E i \in 1..Len(rows) : rows[i][col] = k
    IN  SelectSeq(Collation, Present)

RowsWith(rows, col, k) == LET Test(r) == r[col] = k IN SelectSeq(rows, Test)

\* Group keys of groupby(by) as tuples, in lexicographic order.
RECURSIVE GroupKeys(_, _)
GroupKeys(rows, by) ==
    IF by = <<>> THEN << <<>> >>
    ELSE LET ks == SortedKeys(rows, Head(by))
             Under(k) == LET sub == GroupKeys(RowsWith(rows, Head(by), k), Tail(by))
                         IN  [t \in 1..Len(sub) |-> <<k>> \o sub[t]]
             F[j \in 0..Len(ks)] == IF j = 0 THEN <<>> ELSE F[j - 1] \o Under(ks[j])
         IN  F[Len(ks)]

\* Mutant: the first row of the group stands for the group.
GroupRowsFirstOnly(rows, by, key) ==
    LET Test(r) == \A p \in 1..Len(by) : r[by[p]] = key[p]
    IN  SubSeq(SelectSeq(rows, Test), 1, 1)

RECURSIVE GroupRows(_, _, _)
GroupRows(rows, by, key) ==
    IF by = <<>> THEN rows
    ELSE GroupRows(RowsWith(rows, Head(by), Head(key)), Tail(by), Tail(key))

\* groupby(by)[cols].sum().reset_index(): one row per group, in key order.
GroupbySum(rows, by, cols) ==
    LET keys == GroupKeys(rows, by)
        Pos(c) == CHOOSE p \in 1..Len(by) : by[p] = c
    IN  [j \in 1..Len(keys) |->
            [c \in SeqRange(by) \cup cols |->
                IF c \in cols THEN Sum(GroupRows(rows, by, keys[j]), c)
                ELSE keys[j][Pos(c)]]]

\* sort_values uses numpy's quicksort, which is not stable: the order of rows that
\* tie is the build's choice.  Two of its outcomes are modelled.
TieOrders == {"keep", "reverse"}

\* Insert row x into t, which is non-increasing by col: after every larger row and,
\* when ties keep their order, after the rows it ties with.
RECURSIVE InsertDesc(_, _, _, _)
InsertDesc(x, t, col, ties) ==
    IF t = <<>> THEN <<x>>
    ELSE IF Head(t)[col] > x[col] \/ (Head(t)[col] = x[col] /\ ties = "keep")
         THEN <<Head(t)>> \o InsertDesc(x, Tail(t), col, ties)
    ELSE <<x>> \o t

\* Mutant: the sort is left out.
SortValuesMissing(t, col, ties) == t

\* sort_values(by=col, ascending=False)
RECURSIVE SortValuesDesc(_, _, _)
SortValuesDesc(t, col, ties) ==
    IF t = <<>> THEN <<>>
    ELSE InsertDesc(t[Len(t)], SortValuesDesc(SubSeq(t, 1, Len(t) - 1), col, ties),
                    col, ties)

\* Mutant: one row short.
HeadNOneShort(t, n) == SubSeq(t, 1, IF Len(t) < n THEN Len(t) ELSE n - 1)

\* .head(n)
HeadN(t, n) == SubSeq(t, 1, IF Len(t) < n THEN Len(t) ELSE n)

RegionSales(flt, ties) ==
    SortValuesDesc(GroupbySum(flt, <<"Region">>, {"Sales"}), "Sales", ties)

CategorySales(flt, ties) ==
    SortValuesDesc(GroupbySum(flt, <<"Category">>, {"Sales"}), "Sales", ties)

TopProducts(flt, ties) ==
    HeadN(SortValuesDesc(GroupbySum(flt, <<"Product_Name">>, {"Profit"}), "Profit", ties),
          TopN)

SegmentSummary(flt, ties) ==
    SortValuesDesc(GroupbySum(flt, <<"Segment">>, {"Sales", "Profit"}), "Sales", ties)

\* No sort_values here: the rows stay in (Segment, Category) key order.
SegmentCategory(flt) == GroupbySum(flt, <<"Segment", "Category">>, {"Sales"})

(* -------------------------------- export ------------------------------- *)
ColumnNames == <<"Order_ID", "Order_Date", "Ship_Date", "Segment", "Region", "Category",
                 "Product_Name", "Sales", "Profit", "Delivery_Time">>

\* to_csv(index=False): a header line and one line per row, columns in frame order.
convert_df_to_csv(rows) ==
    [header |-> ColumnNames,
     lines |-> [i \in 1..Len(rows) |-> [c \in 1..Len(ColumnNames) |-> rows[i][ColumnNames[c]]]]]

NoCsv == [header |-> <<>>, lines |-> <<>>]

(* ------------------------------- feedback ------------------------------ *)
\* Characters a user types: a letter, the field delimiter, a line break.
Alphabet == {"a", ",", "\n"}
Whitespace == {"\n"}

Texts == UNION {[1..n -> Alphabet] : n \in 0..MaxTextLen}

\* datetime.now().strftime("%Y-%m-%d %H:%M:%S"), one token per second of the clock.
TimeStamps == <<"12:00:00", "12:00:01", "12:00:02", "12:00:03", "12:00:04">>

\* feedback.strip() is empty
IsBlank(text) == \A i \in 1..Len(text) : text[i] \in Whitespace

\* feedback.replace(',', ';')
ReplaceCommas(text) == [i \in 1..Len(text) |-> IF text[i] = "," THEN ";" ELSE text[i]]

HeaderLine == <<"Timestamp", ",", "Feedback", "\n">>

NoFile == [exists |-> FALSE, data |-> <<>>]

\* Lines 205-212: create the file with its header if it is missing, then append
\* "<timestamp>,<text with commas replaced>\n" (the text is written unstripped).
AppendFeedback(file, stamp, text) ==
    [exists |-> TRUE,
     data |-> (IF file.exists THEN file.data ELSE HeaderLine)
                 \o <<stamp, ",">> \o ReplaceCommas(text) \o <<"\n">>]

\* s cut at every occurrence of sep.
RECURSIVE Split(_, _)
Split(s, sep) ==
    IF \A i \in 1..Len(s) : s[i] # sep THEN <<s>>
    ELSE LET p == CHOOSE i \in 1..Len(s) : s[i] = sep /\ \A j \in 1..(i - 1) : s[j] # sep
         IN  <<SubSeq(s, 1, p - 1)>> \o Split(SubSeq(s, p + 1, Len(s)), sep)

NaN == <<"NaN">>

\* pd.read_csv: physical lines, blank ones skipped; the first is the header; a line
\* with fewer fields than the header is padded with NaN, an empty field is NaN, a
\* line with more fields is a ParserError.
read_csv(data) ==
    LET NotBlank(l) == ~ IsBlank(l)
        lines == SelectSeq(Split(data, "\n"), NotBlank)
        columns == Split(lines[1], ",")
        Fields(l) == Split(l, ",")
        Cell(l, c) == IF c > Len(Fields(l)) \/ Fields(l)[c] = <<>> THEN NaN
                      ELSE Fields(l)[c]
    IN  [columns |-> columns,
         rows |-> [j \in 1..(Len(lines) - 1) |->
                      [c \in 1..Len(columns) |-> Cell(lines[j + 1], c)]],
         error |-> \E j \in 2..Len(lines) : Len(Fields(lines[j])) > Len(columns)]

(* -------------------------------- state -------------------------------- *)
VARIABLES
    df,                       \* the cached dataset
    date_range,               \* sidebar widgets
    selected_segments,
    selected_regions,
    show_region_chart,
    show_category_chart,
    show_top_products_chart,
    show_segment_chart,
    time_granularity,         \* radio
    feedback,                 \* text area
    feedback_csv,             \* the file feedback.csv
    clock,                    \* seconds shown by datetime.now()
    submitted,                \* history: <<stamp, text>> of every press of Submit
    status,                   \* how the last run of the script ended
    bound,                    \* names the last run of the script assigned
    filtered_df,
    metrics,
    deltas,
    time_data,
    region_sales,
    category_sales,
    top_products,
    segment_summary,
    segment_category,
    csv_data

widgets == <<date_range, selected_segments, selected_regions, show_region_chart,
             show_category_chart, show_top_products_chart, show_segment_chart,
             time_granularity, feedback>>
results == <<status, bound, filtered_df, metrics, deltas, time_data, region_sales,
             category_sales, top_products, segment_summary, segment_category, csv_data>>
vars == <<df, widgets, feedback_csv, clock, submitted, results>>

(* ----------------------------- one script run ------------------------- *)
\* Values of the widgets a run is started with.
Widgets(dr, segs, regs, rc, cc, tc, sc, gran, text) ==
    [date_range |-> dr, selected_segments |-> segs, selected_regions |-> regs,
     show_region_chart |-> rc, show_category_chart |-> cc,
     show_top_products_chart |-> tc, show_segment_chart |-> sc,
     time_granularity |-> gran, feedback |-> text]

\* Everything one top-to-bottom run of the script computes.  The run ends early at
\* st.stop() in the validation ("stopped"), at the IndexError the filter raises when
\* the date input holds fewer than two dates, or at the ZeroDivisionError of the
\* deltas.  A widget that the run does not reach is not rendered and falls back to
\* its default.
Script(data, w, file, pressed, stamp, ties) ==
    LET stopped == ValidationStops(w.selected_segments, w.selected_regions)
        filtered == ~ stopped /\ Len(w.date_range) >= 2
        flt == FilterData(data, w.date_range, w.selected_segments, w.selected_regions)
        k == Metrics(data, flt)
        d == Deltas(k)
        done == filtered /\ d.orders_delta.kind # "raise"
        st == IF stopped THEN "stopped"
              ELSE IF ~ filtered THEN "IndexError"
              ELSE IF ~ done THEN "ZeroDivisionError"
              ELSE "done"
        rc == filtered /\ w.show_region_chart
        cc == filtered /\ w.show_category_chart
        tc == filtered /\ w.show_top_products_chart
        sc == filtered /\ w.show_segment_chart
        gran == IF done THEN w.time_granularity ELSE "Monthly"
        text == IF done THEN w.feedback ELSE <<>>
        write == done /\ pressed /\ ~ IsBlank(text)
    IN  [status |-> st,
         show_region_chart |-> rc,
         show_category_chart |-> cc,
         show_top_products_chart |-> tc,
         show_segment_chart |-> sc,
         time_granularity |-> gran,
         feedback |-> text,
         bound |-> (IF filtered THEN {"filtered_df", "metrics"} ELSE {})
                     \cup (IF done THEN {"deltas", "time_data", "segment_category",
                                         "csv_data"} ELSE {})
                     \cup (IF done /\ rc THEN {"region_sales"} ELSE {})
                     \cup (IF done /\ cc THEN {"category_sales"} ELSE {})
                     \cup (IF done /\ tc THEN {"top_products"} ELSE {})
                     \cup (IF done /\ sc THEN {"segment_summary"} ELSE {}),
         filtered_df |-> IF filtered THEN flt ELSE <<>>,
         metrics |-> IF filtered THEN k ELSE NoMetrics,
         deltas |-> IF filtered THEN d ELSE NoDeltas,
         time_data |-> IF done THEN Resample(flt, gran) ELSE <<>>,
         region_sales |-> IF done /\ rc THEN RegionSales(flt, ties) ELSE <<>>,
         category_sales |-> IF done /\ cc THEN CategorySales(flt, ties) ELSE <<>>,
         top_products |-> IF done /\ tc THEN TopProducts(flt, ties) ELSE <<>>,
         segment_summary |-> IF done /\ sc THEN SegmentSummary(flt, ties) ELSE <<>>,
         segment_category |-> IF done THEN SegmentCategory(flt) ELSE <<>>,
         csv_data |-> IF done THEN convert_df_to_csv(flt) ELSE NoCsv,
         feedback_csv |-> IF write THEN AppendFeedback(file, stamp, text) ELSE file]

\* The state after a run that produced r.
Rerun(r) ==
    /\ show_region_chart' = r.show_region_chart
    /\ show_category_chart' = r.show_category_chart
    /\ show_top_products_chart' = r.show_top_products_chart
    /\ show_segment_chart' = r.show_segment_chart
    /\ time_granularity' = r.time_granularity
    /\ feedback' = r.feedback
    /\ feedback_csv' = r.feedback_csv
    /\ status' = r.status
    /\ bound' = r.bound
    /\ filtered_df' = r.filtered_df
    /\ metrics' = r.metrics
    /\ deltas' = r.deltas
    /\ time_data' = r.time_data
    /\ region_sales' = r.region_sales
    /\ category_sales' = r.category_sales
    /\ top_products' = r.top_products
    /\ segment_summary' = r.segment_summary
    /\ segment_category' = r.segment_category
    /\ csv_data' = r.csv_data

Current ==
    Widgets(date_range, selected_segments, selected_regions, show_region_chart,
            show_category_chart, show_top_products_chart, show_segment_chart,
            time_granularity, feedback)

\* A rerun in which no feedback is submitted.
Refresh(w) ==
    /\ \E ties \in TieOrders : Rerun(Script(df, w, feedback_csv, FALSE, "", ties))
    /\ UNCHANGED <<df, clock, submitted>>

(* ------------------------------- Init ---------------------------------- *)
\* First run of the script: the date input holds [min_date, max_date], both
\* multiselects are empty, so the run stops at the validation.
DefaultWidgets(data) ==
    LET dates == SeqRange(Column(data, "Order_Date"))
    IN  Widgets(<<MinOf(dates), MaxOf(dates)>>, {}, {}, FALSE, FALSE, FALSE, FALSE,
                "Monthly", <<>>)

FirstRun(data) ==
    LET r == Script(data, DefaultWidgets(data), NoFile, FALSE, "", "keep")
    IN  /\ df = data
        /\ date_range = DefaultWidgets(data).date_range
        /\ selected_segments = {}
        /\ selected_regions = {}
        /\ show_region_chart = r.show_region_chart
        /\ show_category_chart = r.show_category_chart
        /\ show_top_products_chart = r.show_top_products_chart
        /\ show_segment_chart = r.show_segment_chart
        /\ time_granularity = r.time_granularity
        /\ feedback = r.feedback
        /\ feedback_csv = r.feedback_csv
        /\ clock = 0
        /\ submitted = <<>>
        /\ status = r.status
        /\ bound = r.bound
        /\ filtered_df = r.filtered_df
        /\ metrics = r.metrics
        /\ deltas = r.deltas
        /\ time_data = r.time_data
        /\ region_sales = r.region_sales
        /\ category_sales = r.category_sales
        /\ top_products = r.top_products
        /\ segment_summary = r.segment_summary
        /\ segment_category = r.segment_category
        /\ csv_data = r.csv_data

Init == \E csv \in CsvFiles : FirstRun(load_data(csv))

(* ------------------------------ actions -------------------------------- *)
\* Values the date input can hold: a range, or the single date it holds while the
\* user is still picking the end of the range.
RangeDates == {20240101, 20240210, 20240331}
DateInputs ==
    {<<a>> : a \in RangeDates} \cup {p \in RangeDates \X RangeDates : p[1] <= p[2]}

SetDateRange ==
    \E dr \in DateInputs :
        /\ date_range' = dr
        /\ UNCHANGED <<selected_segments, selected_regions>>
        /\ Refresh([Current EXCEPT !.date_range = dr])

\* options = df["Segment"].unique()
SelectSegments ==
    \E segs \in SUBSET SeqRange(Column(df, "Segment")) :
        /\ selected_segments' = segs
        /\ UNCHANGED <<date_range, selected_regions>>
        /\ Refresh([Current EXCEPT !.selected_segments = segs])

\* options = df["Region"].unique()
SelectRegions ==
    \E regs \in SUBSET SeqRange(Column(df, "Region")) :
        /\ selected_regions' = regs
        /\ UNCHANGED <<date_range, selected_segments>>
        /\ Refresh([Current EXCEPT !.selected_regions = regs])

\* The checkboxes are rendered only by a run that got past the filter.
CheckboxesRendered == status \in {"ZeroDivisionError", "done"}

ToggleRegionChart ==
    /\ CheckboxesRendered
    /\ UNCHANGED <<date_range, selected_segments, selected_regions>>
    /\ Refresh([Current EXCEPT !.show_region_chart = ~ show_region_chart])

ToggleCategoryChart ==
    /\ CheckboxesRendered
    /\ UNCHANGED <<date_range, selected_segments, selected_regions>>
    /\ Refresh([Current EXCEPT !.show_category_chart = ~ show_category_chart])

ToggleTopProductsChart ==
    /\ CheckboxesRendered
    /\ UNCHANGED <<date_range, selected_segments, selected_regions>>
    /\ Refresh([Current EXCEPT !.show_top_products_chart = ~ show_top_products_chart])

ToggleSegmentChart ==
    /\ CheckboxesRendered
    /\ UNCHANGED <<date_range, selected_segments, selected_regions>>
    /\ Refresh([Current EXCEPT !.show_segment_chart = ~ show_segment_chart])

\* The radio, the text area and the button are rendered only by a complete run.
SetGranularity ==
    \E g \in {"Monthly", "Daily"} :
        /\ status = "done"
        /\ UNCHANGED <<date_range, selected_segments, selected_regions>>
        /\ Refresh([Current EXCEPT !.time_granularity = g])

EditFeedback ==
    \E text \in Texts :
        /\ status = "done"
        /\ UNCHANGED <<date_range, selected_segments, selected_regions>>
        /\ Refresh([Current EXCEPT !.feedback = text])

\* A press of "Submit Feedback": the script is rerun with the button set.
SubmitFeedback ==
    \E now \in {clock, clock + 1}, ties \in TieOrders :
        /\ status = "done"
        /\ Len(submitted) < MaxSubmissions
        /\ clock' = now
        /\ submitted' = Append(submitted, <<TimeStamps[now + 1], feedback>>)
        /\ Rerun(Script(df, Current, feedback_csv, TRUE, TimeStamps[now + 1], ties))
        /\ UNCHANGED <<df, date_range, selected_segments, selected_regions>>

Next ==
    \/ SetDateRange
    \/ SelectSegments
    \/ SelectRegions
    \/ ToggleRegionChart
    \/ ToggleCategoryChart
    \/ ToggleTopProductsChart
    \/ ToggleSegmentChart
    \/ SetGranularity

Spec == Init /\ [][Next]_vars

(* ----------------------- the feedback form, in use ---------------------- *)
\* Sessions on the scenario dataset in which the user completes the selection and
\* uses the feedback form.
InitFeedback == FirstRun(load_data(ScenarioCsv))

NextFeedback ==
    \/ SelectSegments
    \/ SelectRegions
    \/ EditFeedback
    \/ SubmitFeedback

SpecFeedback == InitFeedback /\ [][NextFeedback]_vars

(* ------------------- the delta statements, on their own ------------------ *)
\* KPI snapshots a run can hold when it reaches the delta statements.
Snapshots ==
    {[NoMetrics EXCEPT !.overall_sales = 50 * bs, !.total_sales = 50 * cs,
                       !.overall_profit = 50 * bp, !.total_profit = 50 * cp,
                       !.overall_orders = bo, !.total_orders = co,
                       !.overall_delivery = Num(3, 1), !.avg_delivery = Num(5, 2)] :
        bs \in 0..MaxMetric, cs \in 0..MaxMetric,
        bp \in (-MaxMetric)..MaxMetric, cp \in (-MaxMetric)..MaxMetric,
        bo \in 0..MaxMetric, co \in 0..MaxMetric}

\* A run that has computed its KPIs and is about to execute the delta statements.
InitCompare ==
    /\ df = load_data(ScenarioCsv)
    /\ date_range = <<20240101, 20240331>>
    /\ selected_segments = {"Consumer"}
    /\ selected_regions = {"East"}
    /\ show_region_chart = FALSE
    /\ show_category_chart = FALSE
    /\ show_top_products_chart = FALSE
    /\ show_segment_chart = FALSE
    /\ time_granularity = "Monthly"
    /\ feedback = <<>>
    /\ feedback_csv = NoFile
    /\ clock = 0
    /\ submitted = <<>>
    /\ status = "metrics"
    /\ bound = {"filtered_df", "metrics"}
    /\ filtered_df = <<>>
    /\ metrics \in Snapshots
    /\ deltas = NoDeltas
    /\ time_data = <<>>
    /\ region_sales = <<>>
    /\ category_sales = <<>>
    /\ top_products = <<>>
    /\ segment_summary = <<>>
    /\ segment_category = <<>>
    /\ csv_data = NoCsv

\* The four delta statements.
Compare ==
    /\ status = "metrics"
    /\ deltas' = Deltas(metrics)
    /\ status' = IF deltas'.orders_delta.kind = "raise" THEN "ZeroDivisionError"
                 ELSE "deltas"
    /\ bound' = IF deltas'.orders_delta.kind = "raise" THEN bound
                ELSE bound \cup {"deltas"}
    /\ UNCHANGED <<df, widgets, feedback_csv, clock, submitted, filtered_df, metrics,
                   time_data, region_sales, category_sales, top_products,
                   segment_summary, segment_category, csv_data>>

NextCompare == Compare

SpecCompare == InitCompare /\ [][NextCompare]_vars

(* ======================================================================= *)
(* Properties                                                              *)
(* ======================================================================= *)
NothingComputed ==
    /\ bound = {}
    /\ filtered_df = <<>>
    /\ metrics = NoMetrics
    /\ deltas = NoDeltas
    /\ time_data = <<>>
    /\ region_sales = <<>>
    /\ category_sales = <<>>
    /\ top_products = <<>>
    /\ segment_summary = <<>>
    /\ segment_category = <<>>
    /\ csv_data = NoCsv

\* C1: a run whose segment selection or region selection is empty halts at the
\* validation and computes nothing (no filtered view, KPI, delta, summary, time
\* series or export); a run computes something only when both are non-empty.
C1_ValidationHalts ==
    /\ (selected_segments = {} \/ selected_regions = {})
          => (status = "stopped" /\ NothingComputed)
    /\ ~ NothingComputed => (selected_segments # {} /\ selected_regions # {})
    /\ status = "stopped" => (selected_segments = {} \/ selected_regions = {})

\* A run with segments selected and no region, halted.
C1_Witness ==
    /\ selected_segments # {}
    /\ selected_regions = {}
    /\ status = "stopped"
    /\ Len(date_range) = 2

\* The rows of df the criteria ask for, by position.
Wanted ==
    {i \in 1..Len(df) :
        /\ date_range[1] <= df[i].Order_Date
        /\ df[i].Order_Date <= date_range[2]
        /\ df[i].Segment \in selected_segments
        /\ df[i].Region \in selected_regions}

\* C2 (state part): the filtered view holds exactly the rows of df whose order date
\* is in [start, end], both ends included, and whose segment and region are
\* selected, in their order in df.
C2_ExactRows ==
    "filtered_df" \in bound =>
        /\ Len(filtered_df) = Cardinality(Wanted)
        /\ \A i \in Wanted : \E j \in 1..Len(filtered_df) : filtered_df[j] = df[i]
        /\ \A j \in 1..Len(filtered_df) : \E i \in Wanted : filtered_df[j] = df[i]
        /\ \A j1, j2 \in 1..Len(filtered_df) :
              j1 < j2 => \E i1, i2 \in Wanted :
                            i1 < i2 /\ df[i1] = filtered_df[j1] /\ df[i2] = filtered_df[j2]

\* C2: the filtered view is exactly the wanted rows in their original order, and no
\* run changes the dataset.
C2_FilterExact == [] C2_ExactRows /\ [][df' = df]_vars

\* A filtered view with a row on each end of the date range and a row of df left out.
C2_Witness ==
    /\ "filtered_df" \in bound
    /\ date_range[1] < date_range[2]
    /\ Len(filtered_df) >= 2
    /\ Len(filtered_df) < Len(df)
    /\ \E j \in 1..Len(filtered_df) : filtered_df[j].Order_Date = date_range[1]
    /\ \E j \in 1..Len(filtered_df) : filtered_df[j].Order_Date = date_range[2]

(* ----------------------------- time series ----------------------------- *)
\* Number of the calendar period (day or month) a date lies in.
RECURSIVE DaysBefore(_, _)
DaysBefore(y, m) == IF m = 1 THEN 0 ELSE DaysBefore(y, m - 1) + DaysInMonth(y, m - 1)

PeriodIndex(gran, d) ==
    IF gran = "Monthly" THEN YearOf(d) * 12 + MonthOf(d)
    ELSE (YearOf(d) - 2024) * 366 + DaysBefore(YearOf(d), MonthOf(d)) + DayOf(d)

FilteredIn(gran, n) ==
    LET Test(r) == PeriodIndex(gran, r.Order_Date) = n IN SelectSeq(filtered_df, Test)

FilteredDates == SeqRange(Column(filtered_df, "Order_Date"))

\* C4 as claimed: the time series has an entry only for periods that hold a filtered
\* record.
C4_SparseSeries ==
    "time_data" \in bound =>
        \A j \in 1..Len(time_data) :
            FilteredIn(time_granularity,
                       PeriodIndex(time_granularity, time_data[j].Order_Date)) # <<>>

\* C4 amended: the time series has exactly one entry for every period from that of
\* the earliest filtered record to that of the latest one, in order; an entry holds
\* the sums of the records of its period, which are 0 for a period without records;
\* an empty filtered view gives an empty series.
C4_DenseSeries ==
    /\ ("time_data" \in bound /\ filtered_df = <<>>) => time_data = <<>>
    /\ ("time_data" \in bound /\ filtered_df # <<>>) =>
        LET first == PeriodIndex(time_granularity, MinOf(FilteredDates))
            last == PeriodIndex(time_granularity, MaxOf(FilteredDates))
        IN  /\ Len(time_data) = last - first + 1
            /\ \A j \in 1..Len(time_data) :
                  /\ PeriodIndex(time_granularity, time_data[j].Order_Date) = first + j - 1
                  /\ time_data[j].Sales =
                        SumSeq(Column(FilteredIn(time_granularity, first + j - 1), "Sales"))
                  /\ time_data[j].Profit =
                        SumSeq(Column(FilteredIn(time_granularity, first + j - 1), "Profit"))

\* A monthly series with a month that holds no filtered record, emitted with zero sums.
C4_Witness ==
    /\ "time_data" \in bound
    /\ time_granularity = "Monthly"
    /\ \E j \in 1..Len(time_data) :
          /\ FilteredIn("Monthly", PeriodIndex("Monthly", time_data[j].Order_Date)) = <<>>
          /\ time_data[j].Sales = 0
          /\ time_data[j].Profit = 0

Ascending(t) == \A j \in 1..(Len(t) - 1) : t[j].Order_Date < t[j + 1].Order_Date

ScenarioSelected ==
    /\ df = load_data(ScenarioCsv)
    /\ "time_data" \in bound
    /\ time_granularity = "Monthly"
    /\ Len(filtered_df) = 2

NonIncreasing(t, col) == \A j \in 1..(Len(t) - 1) : t[j][col] >= t[j + 1][col]

Rank(str) == CHOOSE i \in 1..Len(Collation) : Collation[i] = str

\* Strictly ascending by the pair (Segment, Category).
KeyAscending(t) ==
    \A j \in 1..(Len(t) - 1) :
        \/ Rank(t[j].Segment) < Rank(t[j + 1].Segment)
        \/ /\ t[j].Segment = t[j + 1].Segment
           /\ Rank(t[j].Category) < Rank(t[j + 1].Category)

SingleKeySummariesSorted ==
    /\ "region_sales" \in bound => NonIncreasing(region_sales, "Sales")
    /\ "category_sales" \in bound => NonIncreasing(category_sales, "Sales")
    /\ "top_products" \in bound => NonIncreasing(top_products, "Profit")
    /\ "segment_summary" \in bound => NonIncreasing(segment_summary, "Sales")

ProductNames == SeqRange(Column(filtered_df, "Product_Name"))

ProductProfit(name) ==
    LET Test(r) == r.Product_Name = name
    IN  SumSeq(Column(SelectSeq(filtered_df, Test), "Profit"))

\* C6: the top-products summary has min(10, distinct product names of the filtered
\* view) rows, one per product with its summed profit, non-increasing by profit,
\* and no product left out has a larger summed profit than a product included.
C6_TopProducts ==
    "top_products" \in bound =>
        LET included == SeqRange(Column(top_products, "Product_Name"))
        IN  /\ Len(top_products) =
                  IF Cardinality(ProductNames) < 10 THEN Cardinality(ProductNames) ELSE 10
            /\ Cardinality(included) = Len(top_products)
            /\ included \subseteq ProductNames
            /\ \A j \in 1..Len(top_products) :
                  top_products[j].Profit = ProductProfit(top_products[j].Product_Name)
            /\ NonIncreasing(top_products, "Profit")
            /\ \A out \in ProductNames \ included : \A in \in included :
                  ProductProfit(out) <= ProductProfit(in)

\* More than ten products in the filtered view, one of them sold twice, and a
\* product left out with a strictly smaller profit.
C6_Witness ==
    /\ "top_products" \in bound
    /\ Cardinality(ProductNames) > 10
    /\ Len(filtered_df) > Cardinality(ProductNames)
    /\ Len(top_products) = 10
    /\ \E out \in ProductNames \ SeqRange(Column(top_products, "Product_Name")) :
          ProductProfit(out) < top_products[10].Profit

\* Every filtered record lies in exactly one group of summary t, keyed by column col.
OneGroupEach(t, col) ==
    \A i \in 1..Len(filtered_df) :
        Cardinality({j \in 1..Len(t) : t[j][col] = filtered_df[i][col]}) = 1

\* C7: for a non-empty filtered view, the per-group sales of the summaries by
\* region, by category and by segment each add up to total_sales, and every record
\* lies in exactly one group.
C7_GroupTotalsReconcile ==
    filtered_df # <<>> =>
        /\ "region_sales" \in bound =>
              /\ SumSeq(Column(region_sales, "Sales")) = metrics.total_sales
              /\ OneGroupEach(region_sales, "Region")
        /\ "category_sales" \in bound =>
              /\ SumSeq(Column(category_sales, "Sales")) = metrics.total_sales
              /\ OneGroupEach(category_sales, "Category")
        /\ "segment_summary" \in bound =>
              /\ SumSeq(Column(segment_summary, "Sales")) = metrics.total_sales
              /\ OneGroupEach(segment_summary, "Segment")

\* All three summaries computed, each with several groups, one group of several rows.
C7_Witness ==
    /\ {"region_sales", "category_sales", "segment_summary"} \subseteq bound
    /\ Len(region_sales) = 2
    /\ Len(category_sales) = 3
    /\ Len(segment_summary) = 2
    /\ Len(filtered_df) > 3
    /\ metrics.total_sales > 0

(* ------------------------------ empty result --------------------------- *)
CriteriaComplete ==
    selected_segments # {} /\ selected_regions # {} /\ Len(date_range) = 2

\* C8: when the criteria are complete and no record matches, the run completes
\* without an exception, with total_sales = 0, total_profit = 0, total_orders = 0,
\* avg_delivery = NaN (not 0), every grouped summary empty and an empty time series.
C8_EmptyResult ==
    (CriteriaComplete /\ Wanted = {}) =>
        /\ status = "done"
        /\ filtered_df = <<>>
        /\ metrics.total_sales = 0
        /\ metrics.total_profit = 0
        /\ metrics.total_orders = 0
        /\ metrics.avg_delivery.kind = "nan"
        /\ \A x \in {deltas.sales_delta, deltas.profit_delta, deltas.orders_delta,
                     deltas.delivery_delta} : x.kind \notin {"raise", "unset"}
        /\ time_data = <<>>
        /\ region_sales = <<>>
        /\ category_sales = <<>>
        /\ top_products = <<>>
        /\ segment_summary = <<>>
        /\ segment_category = <<>>
        /\ {"time_data", "segment_category", "csv_data"} \subseteq bound
        /\ csv_data.lines = <<>>

\* No record matches and every optional summary is switched on.
C8_Witness ==
    /\ CriteriaComplete
    /\ Wanted = {}
    /\ {"region_sales", "category_sales", "top_products", "segment_summary"} \subseteq bound

(* -------------------------------- deltas ------------------------------- *)
Sentinels == {"inf", "-inf", "nan"}

\* C3: for each of the three percentage deltas, a baseline of 0 gives a defined
\* sentinel and nothing is raised, whatever the filtered metric is.
C3_ZeroBaselineSentinel ==
    status \in {"deltas", "ZeroDivisionError"} =>
        /\ status # "ZeroDivisionError"
        /\ metrics.overall_sales = 0 => deltas.sales_delta.kind \in Sentinels
        /\ metrics.overall_profit = 0 => deltas.profit_delta.kind \in Sentinels
        /\ metrics.overall_orders = 0 => deltas.orders_delta.kind \in Sentinels

(* ------------------------------- feedback ------------------------------ *)
\* The presses of Submit whose text is not blank after trimming.
Accepted == LET Test(e) == ~ IsBlank(e[2]) IN SelectSeq(submitted, Test)

\* C10: the feedback log read back is the header plus exactly one two-field
\* (timestamp, comment) record per submission whose text was not blank, in
\* submission order (so a blank submission appends nothing and an earlier record
\* is never altered).
C10_OneRecordPerSubmission ==
    /\ ~ feedback_csv.exists => Accepted = <<>>
    /\ feedback_csv.exists =>
          LET view == read_csv(feedback_csv.data)
          IN  /\ ~ view.error
              /\ view.columns = << <<"Timestamp">>, <<"Feedback">> >>
              /\ Len(view.rows) = Len(Accepted)
              /\ \A k \in 1..Len(view.rows) :
                    /\ view.rows[k][1] = <<Accepted[k][1]>>
                    /\ view.rows[k][2] # NaN

====
